---- MODULE Spec2Model ----
(***************************************************************************)
(* Model of src/app.py: the DatabaseManager store operations, the          *)
(* AmazonScraper fetch / extract / affiliate functions and the             *)
(* scrape_and_store_category orchestration.                                *)
(*                                                                         *)
(* Text is modelled as a sequence of one-character strings so that strip,  *)
(* length, regular-expression search and concatenation are computed.       *)
(***************************************************************************)
EXTENDS Integers, Sequences, FiniteSets, TLC

VARIABLES
    now,            \* the database clock, NOW()
    last_scraped,   \* categories.last_scraped, committed, per category id
    products,       \* products table, committed rows, per category id
    txn,            \* rows of the open insert_products transaction (uncommitted)
    open_conns,     \* connections opened by get_connection and not closed
    pc,             \* position inside scrape_and_store_category
    sas_cat,        \* category_id argument of the running / last call
    sas_products,   \* list returned by scrape_category_products
    sas_result,     \* outcome of the last call
    pre_products,   \* committed products of sas_cat when the call began
    pre_stamp,      \* committed last_scraped of sas_cat when the call began
    ins_i,          \* number of rows inserted so far by insert_products
    retries,        \* get_page: the retries argument
    attempt,        \* get_page: the loop variable
    gets,           \* get_page: number of session.get calls issued
    fetch_state,    \* get_page: idle / running / returned / raised
    fetch_last,     \* get_page: what the most recent session.get produced
    fetch_cause,    \* get_page: the exception raised to the caller
    fetch_resp,     \* get_page: the response returned to the caller
    last_extract,   \* history: per category it is kept for, the last non-empty
                    \* list scraped for it
    obs,            \* what a reader's get_products_by_category returned in the step
                    \* just taken (NoObs when that step was not a read)
    ex_page, ex_limit, ex_out,      \* extraction: input page, limit, result
    aff_url, aff_out,               \* affiliate conversion: input, result
    due_table, due_hours, due_out   \* staleness query: table, window, result

storeVars == <<now, last_scraped, products, txn, open_conns>>
sasVars   == <<pc, sas_cat, sas_products, sas_result, pre_products, pre_stamp, ins_i,
              last_extract>>
fetchVars == <<retries, attempt, gets, fetch_state, fetch_last, fetch_cause, fetch_resp>>
exVars    == <<ex_page, ex_limit, ex_out>>
affVars   == <<aff_url, aff_out>>
dueVars   == <<due_table, due_hours, due_out>>
vars == <<storeVars, sasVars, fetchVars, obs, exVars, affVars, dueVars>>

(***************************************************************************)
(* Bounds of the model.                                                    *)
(***************************************************************************)
MaxBlocks == 3
MaxLimit == 2
MaxRetries == 4
MaxTime == 1
MaxOpenConns == 2
MaxExtra == 2

(***************************************************************************)
(* Values that stand for Python's None and for "not computed yet".         *)
(***************************************************************************)
None == <<"None">>
NotRun == <<"NotRun">>
NULL == -1

(***************************************************************************)
(* Text helpers.                                                           *)
(***************************************************************************)
UpperLetters == <<"A", "B", "C", "D", "E", "F", "G", "H", "I", "J", "K", "L", "M", "N", "O", "P", "Q", "R", "S", "T", "U", "V", "W", "X", "Y", "Z">>
LowerLetters == <<"a", "b", "c", "d", "e", "f", "g", "h", "i", "j", "k", "l", "m", "n", "o", "p", "q", "r", "s", "t", "u", "v", "w", "x", "y", "z">>
Digits == <<"0", "1", "2", "3", "4", "5", "6", "7", "8", "9">>

Range(s) == {s[i] : i \in 1..Len(s)}

Take(s, n) == SubSeq(s, 1, IF n < Len(s) THEN n ELSE Len(s))

StartsWith(s, p) == Len(p) <= Len(s) /\ SubSeq(s, 1, Len(p)) = p

Contains(s, p) == \E i \in 1..(Len(s) - Len(p) + 1) : SubSeq(s, i, i + Len(p) - 1) = p

LowerChar(c) ==
    IF c \in Range(UpperLetters)
    THEN LowerLetters[CHOOSE i \in 1..Len(UpperLetters) : UpperLetters[i] = c]
    ELSE c

Lower(s) == [i \in 1..Len(s) |-> LowerChar(s[i])]

IsSpace(c) == c = " "

RECURSIVE LStrip(_)
LStrip(s) == IF s # <<>> /\ IsSpace(Head(s)) THEN LStrip(Tail(s)) ELSE s

RECURSIVE RStrip(_)
RStrip(s) ==
    IF s # <<>> /\ IsSpace(s[Len(s)]) THEN RStrip(SubSeq(s, 1, Len(s) - 1)) ELSE s

\* element.get_text(strip=True) of an element holding one text node
Strip(s) == RStrip(LStrip(s))

(***************************************************************************)
(* convert_to_affiliate_link                                               *)
(***************************************************************************)
AsinLen == 10
AsinChars == Range(UpperLetters) \cup Range(Digits)
Dp == <<"/", "d", "p", "/">>
DpPrefix == <<"h", "t", "t", "p", "s", ":", "/", "/", "w", "w", "w", ".", "a", "m", "a", "z", "o", "n", ".", "c", "o", "m", "/", "d", "p", "/">>
TagParam == <<"?", "t", "a", "g", "=">>
DefaultAffiliateTag == <<"y", "o", "u", "r", "-", "t", "a", "g", "-", "2", "0">>

\* a pattern that also demands the closing slash: /dp/([A-Z0-9]{10})/
AsinMatchAtSlash(url, i) ==
    /\ i + Len(Dp) + AsinLen <= Len(url)
    /\ SubSeq(url, i, i + Len(Dp) - 1) = Dp
    /\ \A k \in 0..(AsinLen - 1) : url[i + Len(Dp) + k] \in AsinChars
    /\ url[i + Len(Dp) + AsinLen] = "/"

\* the pattern r'/dp/([A-Z0-9]{10})' matches at position i of url
AsinMatchAt(url, i) ==
    /\ i + Len(Dp) + AsinLen - 1 <= Len(url)
    /\ SubSeq(url, i, i + Len(Dp) - 1) = Dp
    /\ \A k \in 0..(AsinLen - 1) : url[i + Len(Dp) + k] \in AsinChars

\* re.search: the leftmost position where the pattern matches, 0 for no match
AsinSearch(url) ==
    IF \E i \in 1..Len(url) : AsinMatchAt(url, i)
    THEN CHOOSE i \in 1..Len(url) :
            /\ AsinMatchAt(url, i)
            /\ \A j \in 1..(i - 1) : ~AsinMatchAt(url, j)
    ELSE 0

\* asin_match.group(1)
AsinGroup(url, i) == SubSeq(url, i + Len(Dp), i + Len(Dp) + AsinLen - 1)

convert_to_affiliate_link(product_url, affiliate_tag) ==
    LET m == AsinSearch(product_url) IN
    IF m # 0
    THEN DpPrefix \o AsinGroup(product_url, m) \o TagParam \o affiliate_tag
    ELSE product_url

(***************************************************************************)
(* urljoin(self.base_url, href) for the forms of href the inputs use       *)
(***************************************************************************)
base_url == <<"h", "t", "t", "p", "s", ":", "/", "/", "w", "w", "w", ".", "a", "m", "a", "z", "o", "n", ".", "c", "o", "m">>
Http == <<"h", "t", "t", "p", ":", "/", "/">>
Https == <<"h", "t", "t", "p", "s", ":", "/", "/">>

urljoin(base, href) ==
    IF StartsWith(href, Http) \/ StartsWith(href, Https) THEN href
    ELSE IF StartsWith(href, <<"/", "/">>) THEN <<"h", "t", "t", "p", "s", ":">> \o href
    ELSE IF StartsWith(href, <<"/">>) THEN base \o href
    ELSE base \o <<"/">> \o href

(***************************************************************************)
(* extract_product_info                                                    *)
(* A block is a record                                                     *)
(*   href   : the href of its first anchor, or None                        *)
(*   titles : per title selector, the raw text of select_one, or None      *)
(*   descs  : per description selector, the raw text of select_one, or None*)
(*   sel    : the product selectors that match the block (6 = the          *)
(*            class-name regular expression of the fallback)               *)
(***************************************************************************)
NoTitle == <<"N", "o", " ", "t", "i", "t", "l", "e", " ", "a", "v", "a", "i", "l", "a", "b", "l", "e">>
NoDescription == <<"N", "o", " ", "d", "e", "s", "c", "r", "i", "p", "t", "i", "o", "n", " ", "a", "v", "a", "i", "l", "a", "b", "l", "e">>
Stars == <<"s", "t", "a", "r", "s">>
Ellipsis == <<".", ".", ".">>
TitleMinLen == 3
DescMinLen == 10
SummaryMax == 200

\* the break condition of the title loop
TitleAccepted(title) == title # <<>> /\ Len(title) > TitleMinLen

\* the title loop run from selector i on, title being the current value
RECURSIVE TitleLoop(_, _, _)
TitleLoop(elems, i, title) ==
    IF i > Len(elems) THEN title
    ELSE IF elems[i] = None THEN TitleLoop(elems, i + 1, title)
    ELSE LET t == Strip(elems[i]) IN
         IF TitleAccepted(t) THEN t ELSE TitleLoop(elems, i + 1, t)

ResolveTitle(block) == TitleLoop(block.titles, 1, NoTitle)

DescAccepted(d) == d # <<>> /\ Len(d) > DescMinLen /\ ~Contains(Lower(d), Stars)

Truncate(d) == IF Len(d) > SummaryMax THEN Take(d, SummaryMax) \o Ellipsis ELSE d

RECURSIVE DescLoop(_, _, _)
DescLoop(elems, i, summary) ==
    IF i > Len(elems) THEN summary
    ELSE IF elems[i] = None THEN DescLoop(elems, i + 1, summary)
    ELSE LET d == Strip(elems[i]) IN
         IF DescAccepted(d) THEN Truncate(d) ELSE DescLoop(elems, i + 1, summary)

ResolveSummary(block) == DescLoop(block.descs, 1, NoDescription)

\* the record returned for a block that has an anchor
ProductInfo(block, rank) ==
    [title   |-> ResolveTitle(block),
     url     |-> convert_to_affiliate_link(urljoin(base_url, block.href), DefaultAffiliateTag),
     summary |-> ResolveSummary(block),
     rank    |-> rank]

\* a one-element sequence holding the record, or the empty sequence for None
extract_product_info(block, rank) ==
    IF block.href = None THEN <<>> ELSE <<ProductInfo(block, rank)>>

(***************************************************************************)
(* scrape_category_products, from the parsed page on                       *)
(***************************************************************************)
DefaultLimit == 10
ProductSelectors == 1..5
FallbackSelector == 6

\* soup.select(selector)
Select(page, s) == SelectSeq(page, LAMBDA b : s \in b.sel)

\* the elements of the first selector that matches anything, else the fallback scan
ProductElements(page, limit) ==
    IF \E s \in ProductSelectors : Select(page, s) # <<>>
    THEN LET s == CHOOSE s \in ProductSelectors :
                     /\ Select(page, s) # <<>>
                     /\ \A r \in ProductSelectors : r < s => Select(page, r) = <<>>
         IN Take(Select(page, s), limit)
    ELSE Take(Select(page, FallbackSelector), limit)

\* the rank argument passed for the element at 0-based index i
RankArg(i) == i + 1

\* the test that admits a record into the result
Admitted(info) == info # <<>> /\ info[1].title # NoTitle

\* the for loop over product_elements from 0-based index i on
RECURSIVE CollectLoop(_, _, _, _)
CollectLoop(elements, i, acc, limit) ==
    IF i >= Len(elements) THEN acc
    ELSE LET info == extract_product_info(elements[i + 1], RankArg(i))
             acc2 == IF Admitted(info) THEN acc \o info ELSE acc
         IN IF Len(acc2) >= limit THEN acc2
            ELSE CollectLoop(elements, i + 1, acc2, limit)

ExtractProducts(page, limit) == CollectLoop(ProductElements(page, limit), 0, <<>>, limit)

(***************************************************************************)
(* Inputs: blocks and pages                                                *)
(***************************************************************************)
HrefDp == <<"/", "W", "i", "d", "g", "e", "t", "/", "d", "p", "/", "B", "0", "B", "0", "B", "0", "B", "0", "B", "0", "/", "r", "e", "f", "=", "z", "g">>
HrefPlain == <<"/", "g", "p", "/", "i", "t", "e", "m", "4", "2">>
TxtWidget == <<" ", "W", "i", "d", "g", "e", "t", " ">>
TxtGadget == <<"G", "a", "d", "g", "e", "t">>
TxtShort == <<"a", "b">>
TxtBlank == <<" ">>
TxtLamp == <<"L", "a", "m", "p", " ", "P", "r", "o">>
TxtStars == <<"4", ".", "5", " ", "o", "u", "t", " ", "o", "f", " ", "5", " ", "S", "t", "a", "r", "s">>
TxtByAcme == <<"b", "y", " ", "A", "c", "m", "e", " ", "C", "o", "r", "p">>
NoElems == <<None, None, None, None, None>>

\* anchor, a heading with a title, a star rating and a description
BodyOk == [href |-> HrefDp, titles |-> <<TxtWidget, None, None, None, None>>,
           descs |-> <<TxtStars, TxtByAcme, None, None, None>>]
\* no anchor at all
BodyNoAnchor == [href |-> None, titles |-> <<TxtGadget, None, None, None, None>>,
                 descs |-> NoElems]
\* anchor, one title element with a two-character text
BodyShort == [href |-> HrefPlain, titles |-> <<TxtShort, None, None, None, None>>,
              descs |-> NoElems]
\* anchor, no title element
BodyNoTitle == [href |-> HrefPlain, titles |-> NoElems, descs |-> NoElems]
\* anchor, a blank heading, then a titled span
BodySecond == [href |-> HrefPlain, titles |-> <<TxtBlank, TxtLamp, None, None, None>>,
               descs |-> NoElems]

Bodies == {BodyOk, BodyNoAnchor, BodyShort, BodyNoTitle, BodySecond}

WithSel(body, sel) ==
    [href |-> body.href, titles |-> body.titles, descs |-> body.descs, sel |-> sel]

Blocks == {WithSel(b, s) : b \in Bodies, s \in {{1}, {4}}} \cup {WithSel(BodyOk, {FallbackSelector})}

Pages(n) == UNION {[1..k -> Blocks] : k \in 0..n}

(***************************************************************************)
(* Initial values of the parts of the state                                *)
(***************************************************************************)
Categories == {1, 2}
CategoryIds == {1, 2, 3}
NoTxn == [open |-> FALSE, rows |-> {}]
NoResp == [err |-> "None", status |-> 0, content |-> <<>>]
NoCause == [type |-> "None", status |-> 0]
NoObs == [cat |-> 0, rows |-> <<>>]
NoOut == [done |-> FALSE, rows |-> <<>>]

IdleStore ==
    /\ now = 0
    /\ last_scraped = [c \in Categories |-> NULL]
    /\ products = [c \in Categories |-> {}]
    /\ txn = NoTxn
    /\ open_conns = 0

IdleSas ==
    /\ pc = "idle"
    /\ sas_cat = 0
    /\ sas_products = <<>>
    /\ sas_result = "none"
    /\ pre_products = {}
    /\ pre_stamp = NULL
    /\ ins_i = 0
    /\ last_extract = <<>>

IdleFetch ==
    /\ retries = 0
    /\ attempt = 0
    /\ gets = 0
    /\ fetch_state = "idle"
    /\ fetch_last = NoResp
    /\ fetch_cause = NoCause
    /\ fetch_resp = NoResp

IdleEx == ex_page = <<>> /\ ex_limit = 0 /\ ex_out = NoOut
IdleAff == aff_url = <<>> /\ aff_out = NotRun
IdleDue == due_table = <<>> /\ due_hours = 0 /\ due_out = NoOut

(***************************************************************************)
(* Specification of the extraction: scrape_category_products applied to a  *)
(* parsed page                                                             *)
(***************************************************************************)
InitExtract ==
    /\ IdleStore /\ IdleSas /\ IdleFetch /\ obs = NoObs /\ IdleAff /\ IdleDue
    /\ ex_page \in Pages(MaxBlocks)
    /\ ex_limit \in 1..MaxLimit
    /\ ex_out = NoOut

RunExtract ==
    /\ ~ex_out.done
    /\ ex_out' = [done |-> TRUE, rows |-> ExtractProducts(ex_page, ex_limit)]
    /\ UNCHANGED <<storeVars, sasVars, fetchVars, obs, ex_page, ex_limit, affVars, dueVars>>

NextExtract == RunExtract

SpecExtract == InitExtract /\ [][NextExtract]_vars

(***************************************************************************)
(* Specification of the affiliate conversion                               *)
(***************************************************************************)
HeadNamed == <<"h", "t", "t", "p", "s", ":", "/", "/", "w", "w", "w", ".", "a", "m", "a", "z", "o", "n", ".", "c", "o", "m", "/", "S", "o", "m", "e", "-", "N", "a", "m", "e">>
HeadShortDp == <<"h", "t", "t", "p", "s", ":", "/", "/", "w", "w", "w", ".", "a", "m", "a", "z", "o", "n", ".", "c", "o", "m", "/", "d", "p", "/", "B", "0">>
TailQuery == <<"?", "t", "h", "=", "1">>
TailRef == <<"/", "r", "e", "f", "=", "x">>
Gp == <<"/", "g", "p", "/">>
DpUpper == <<"/", "D", "P", "/">>

UrlHeads == {base_url, HeadNamed, HeadShortDp}
UrlMarks == {Dp, Gp, DpUpper}
UrlTails == {<<>>, <<"/">>, TailQuery, TailRef}

\* n identifier characters, the one at position bad (if any) in lower case
CharRun(n, bad) ==
    [i \in 1..n |-> IF i = bad THEN "x" ELSE IF i % 2 = 1 THEN "B" ELSE "0"]

UrlRuns == {CharRun(n, bad) : n \in (AsinLen - 2)..(AsinLen + MaxExtra), bad \in 0..(AsinLen + 1)}

AffiliateUrls == {h \o m \o r \o t : h \in UrlHeads, m \in UrlMarks, r \in UrlRuns, t \in UrlTails}

InitAffiliate ==
    /\ IdleStore /\ IdleSas /\ IdleFetch /\ obs = NoObs /\ IdleEx /\ IdleDue
    /\ aff_url \in AffiliateUrls
    /\ aff_out = NotRun

RunAffiliate ==
    /\ aff_out = NotRun
    /\ aff_out' = convert_to_affiliate_link(aff_url, DefaultAffiliateTag)
    /\ UNCHANGED <<storeVars, sasVars, fetchVars, obs, exVars, aff_url, dueVars>>

NextAffiliate == RunAffiliate

SpecAffiliate == InitAffiliate /\ [][NextAffiliate]_vars

(***************************************************************************)
(* Specification of the staleness query get_categories_needing_update      *)
(***************************************************************************)
DefaultHours == 24
DueCount == 3
DueNow == 2 * DefaultHours
StampOffsets == {0, 1, DefaultHours - 1, DefaultHours, DefaultHours + 1, 2 * DefaultHours}
DueStamps == {NULL} \cup {DueNow - d : d \in StampOffsets}
DueWindows == {1, DefaultHours, 2 * DefaultHours}

\* a WHERE clause that also takes the rows exactly at the cutoff
WhereStaleInclusive(stamp, clock, hours_old) == stamp = NULL \/ stamp <= clock - hours_old

\* WHERE last_scraped IS NULL OR last_scraped < NOW() - INTERVAL 'h hours'
WhereStale(stamp, clock, hours_old) == stamp = NULL \/ stamp < clock - hours_old

\* ORDER BY last_scraped ASC NULLS FIRST: a may come before b
OrderedBefore(a, b) == a = NULL \/ (b # NULL /\ a <= b)

\* every row sequence the query may return: ties come in any order
NeedingUpdate(table, clock, hours_old) ==
    LET due == {c \in DOMAIN table : WhereStale(table[c], clock, hours_old)}
        n == Cardinality(due)
    IN {s \in [1..n -> due] :
            /\ \A i, j \in 1..n : i # j => s[i] # s[j]
            /\ \A i, j \in 1..n : i < j => OrderedBefore(table[s[i]], table[s[j]])}

InitDue ==
    /\ IdleSas /\ IdleFetch /\ obs = NoObs /\ IdleEx /\ IdleAff
    /\ now = DueNow
    /\ last_scraped = [c \in Categories |-> NULL]
    /\ products = [c \in Categories |-> {}]
    /\ txn = NoTxn
    /\ open_conns = 0
    /\ due_table \in [1..DueCount -> DueStamps]
    /\ due_hours \in DueWindows
    /\ due_out = NoOut

get_categories_needing_update ==
    /\ ~due_out.done
    /\ \E s \in NeedingUpdate(due_table, now, due_hours) :
          due_out' = [done |-> TRUE, rows |-> s]
    /\ open_conns' = open_conns + 1
    /\ UNCHANGED <<now, last_scraped, products, txn, sasVars, fetchVars, obs, exVars,
                   affVars, due_table, due_hours>>

NextDue == get_categories_needing_update

SpecDue == InitDue /\ [][NextDue]_vars

(***************************************************************************)
(* Properties of the extraction                                            *)
(***************************************************************************)
\* C6: in the sequence returned by the extraction the rank carried by the k-th
\* record is k: blocks that were skipped (no anchor) consume no rank, so the
\* ranks are contiguous 1..N over the accepted records.
C6_RanksContiguous ==
    ex_out.done => \A k \in 1..Len(ex_out.rows) : ex_out.rows[k].rank = k

\* a page whose first located block has no anchor and whose second is accepted
C6_SkippedBlockCase ==
    /\ ex_out.done
    /\ Len(ex_page) >= 2
    /\ ex_page[1].href = None
    /\ ex_page[1].sel = ex_page[2].sel
    /\ Len(ex_out.rows) >= 1

\* the title the specification describes: the first candidate whose trimmed
\* text is longer than 3 characters, else the sentinel
SpecTitle(block) ==
    LET ok == {i \in 1..Len(block.titles) :
                  block.titles[i] # None /\ Len(Strip(block.titles[i])) > 3}
    IN IF ok = {} THEN NoTitle
       ELSE Strip(block.titles[CHOOSE i \in ok : \A j \in ok : i <= j])

\* C7: title resolution yields the first candidate whose trimmed text is longer
\* than 3 characters and otherwise the sentinel, and every returned record has
\* a real title (trimmed text of more than 3 characters).
C7_RealTitles ==
    ex_out.done =>
        /\ \A i \in 1..Len(ex_page) : ResolveTitle(ex_page[i]) = SpecTitle(ex_page[i])
        /\ \A k \in 1..Len(ex_out.rows) : Len(Strip(ex_out.rows[k].title)) > 3

(***************************************************************************)
(* Properties of the affiliate conversion                                  *)
(***************************************************************************)
\* position i of url starts /dp/ followed by 10 identifier characters
DpIdAt(url, i) ==
    /\ i + 13 <= Len(url)
    /\ <<url[i], url[i + 1], url[i + 2], url[i + 3]>> = <<"/", "d", "p", "/">>
    /\ \A k \in 4..13 : url[i + k] \in AsinChars

\* the same, with the closing slash the specification asks for
DpIdSlashAt(url, i) == DpIdAt(url, i) /\ i + 14 <= Len(url) /\ url[i + 14] = "/"

Leftmost(S) == CHOOSE i \in S : \A j \in S : i <= j

Canonical(url, i) == DpPrefix \o SubSeq(url, i + 4, i + 13) \o TagParam \o DefaultAffiliateTag

\* C8 as stated: the URL is rewritten to the canonical form if and only if it
\* holds a segment /dp/<10 identifier characters>/ with the closing slash, and
\* is returned unchanged otherwise.
C8_RewriteIffSlashSegment ==
    aff_out # NotRun =>
        LET S == {i \in 1..Len(aff_url) : DpIdSlashAt(aff_url, i)} IN
        IF S # {} THEN aff_out = Canonical(aff_url, Leftmost(S)) ELSE aff_out = aff_url

\* C8 amended: the URL is rewritten to the canonical form if and only if it
\* holds /dp/ immediately followed by at least 10 identifier characters (no
\* closing slash needed), using the first 10 of the leftmost occurrence, and is
\* returned unchanged otherwise.
C8_RewriteIffDpId ==
    aff_out # NotRun =>
        LET S == {i \in 1..Len(aff_url) : DpIdAt(aff_url, i)} IN
        IF S # {} THEN aff_out = Canonical(aff_url, Leftmost(S)) ELSE aff_out = aff_url

\* a URL whose identifier is not followed by a slash has been rewritten
C8_RewrittenWithoutSlash ==
    /\ aff_out # NotRun
    /\ aff_out # aff_url
    /\ \A i \in 1..Len(aff_url) : ~DpIdSlashAt(aff_url, i)

(***************************************************************************)
(* Properties of the staleness query                                       *)
(***************************************************************************)
\* C9: the query returns exactly the categories whose stamp is null or older
\* than now minus the window, each once, ascending by stamp with every null
\* stamp before any non-null one.
C9_DueExactlyStaleOrdered ==
    due_out.done =>
        LET r == due_out.rows IN
        /\ {r[i] : i \in 1..Len(r)} =
              {c \in 1..DueCount : due_table[c] = NULL \/ due_table[c] + due_hours < now}
        /\ \A i, j \in 1..Len(r) : i < j =>
              /\ r[i] # r[j]
              /\ due_table[r[j]] = NULL => due_table[r[i]] = NULL
              /\ (due_table[r[i]] # NULL /\ due_table[r[j]] # NULL)
                    => due_table[r[i]] <= due_table[r[j]]

\* a table holding a never-scraped row, a fresh row and a stale row has been queried
C9_MixedTableQueried ==
    /\ due_out.done
    /\ due_hours = DefaultHours
    /\ \E a, b, c \in 1..DueCount :
          /\ due_table[a] = NULL
          /\ due_table[b] = now - 1
          /\ due_table[c] = now - 2 * DefaultHours
          /\ Len(due_out.rows) = 2
          /\ due_out.rows[1] = a

(***************************************************************************)
(* get_page: the retry loop, one action per loop iteration                 *)
(* What session.get produces is a record: err names a transport failure    *)
(* ("" for none), status and content are those of the response.            *)
(***************************************************************************)
DefaultRetries == 3

PageTwo == <<WithSel(BodyNoAnchor, {1}), WithSel(BodyOk, {1}), WithSel(BodySecond, {1})>>
PageOne == <<WithSel(BodyOk, {4})>>
PageNoTitle == <<WithSel(BodyNoTitle, {1})>>
SitePages == {PageTwo, PageOne, PageNoTitle}

TransportErrors == {"ConnectionError", "Timeout"}
OtherStatuses == {300, 304, 404, 500, 503}
Outcomes ==
    {[err |-> e, status |-> 0, content |-> <<>>] : e \in TransportErrors}
    \cup {[err |-> "", status |-> 200, content |-> p] : p \in SitePages}
    \cup {[err |-> "", status |-> s, content |-> <<>>] : s \in OtherStatuses}

\* response.raise_for_status() raises HTTPError
RaisesForStatus(status) == 400 <= status /\ status < 600

\* the attempt ends in the except clause
AttemptFails(o) == o.err # "" \/ RaisesForStatus(o.status)

\* the exception the except clause catches
ExceptionOf(o) ==
    IF o.err # "" THEN [type |-> o.err, status |-> 0]
    ELSE [type |-> "HTTPError", status |-> o.status]

\* a loop that gives up one attempt early
IsLastAttemptEarly(a, n) == a >= n - 2

\* if attempt == retries - 1: raise
IsLastAttempt(a, n) == a = n - 1

StartFetch(n) ==
    /\ retries' = n
    /\ attempt' = 0
    /\ gets' = 0
    /\ fetch_state' = "running"
    /\ fetch_last' = NoResp
    /\ fetch_cause' = NoCause
    /\ fetch_resp' = NoResp

\* the caller has taken the outcome: the locals of the call are gone
EndFetch ==
    /\ retries' = 0
    /\ attempt' = 0
    /\ gets' = 0
    /\ fetch_last' = NoResp
    /\ fetch_cause' = NoCause
    /\ fetch_resp' = NoResp
    /\ UNCHANGED fetch_state

GetPageAttempt(o) ==
    /\ obs' = NoObs
    /\ fetch_state = "running"
    /\ attempt < retries
    /\ gets' = gets + 1
    /\ fetch_last' = o
    /\ IF ~AttemptFails(o)
       THEN /\ fetch_state' = "returned"
            /\ fetch_resp' = o
            /\ UNCHANGED <<attempt, fetch_cause>>
       ELSE IF IsLastAttempt(attempt, retries)
       THEN /\ fetch_state' = "raised"
            /\ fetch_cause' = ExceptionOf(o)
            /\ UNCHANGED <<attempt, fetch_resp>>
       ELSE /\ attempt' = attempt + 1
            /\ UNCHANGED <<fetch_state, fetch_cause, fetch_resp>>
    /\ UNCHANGED <<retries, storeVars, sasVars, exVars, affVars, dueVars>>

\* range(retries) is exhausted without a return or a raise: the function falls
\* off its end and returns None
GetPageFallThrough ==
    /\ obs' = NoObs
    /\ fetch_state = "running"
    /\ attempt >= retries
    /\ fetch_state' = "returned"
    /\ UNCHANGED <<retries, attempt, gets, fetch_last, fetch_cause, fetch_resp>>
    /\ UNCHANGED <<storeVars, sasVars, exVars, affVars, dueVars>>

InitFetch ==
    /\ IdleStore /\ IdleSas /\ obs = NoObs /\ IdleEx /\ IdleAff /\ IdleDue
    /\ retries \in 0..MaxRetries
    /\ attempt = 0
    /\ gets = 0
    /\ fetch_state = "running"
    /\ fetch_last = NoResp
    /\ fetch_cause = NoCause
    /\ fetch_resp = NoResp

NextFetch ==
    \/ \E o \in Outcomes : GetPageAttempt(o)
    \/ GetPageFallThrough

SpecFetch == InitFetch /\ [][NextFetch]_vars

\* C5 as stated: with N >= 1 attempts allowed, an attempt that ends in a
\* transport error or a non-2xx status is retried; the error is raised only
\* after the N-th GET, carrying that attempt's cause; a success returns at once.
C5_RetryOnNon2xx ==
    retries >= 1 =>
        /\ fetch_state = "running" => gets = attempt /\ gets < retries
        /\ fetch_state = "raised" =>
              /\ gets = retries
              /\ fetch_last.err # "" => fetch_cause.type = fetch_last.err
              /\ fetch_last.err = "" =>
                    fetch_cause = [type |-> "HTTPError", status |-> fetch_last.status]
        /\ fetch_state = "returned" =>
              /\ gets = attempt + 1 /\ gets <= retries
              /\ fetch_resp = fetch_last
              /\ fetch_last.err = ""
              /\ 200 <= fetch_last.status /\ fetch_last.status < 300

\* C5 amended: with N >= 1 attempts allowed, an attempt that ends in a
\* transport error or a 4xx/5xx status is retried; the error is raised only
\* after the N-th GET, carrying that attempt's cause; any other response
\* (2xx, and also 1xx/3xx) returns at once with no further GET.
C5_RetryOnErrorStatus ==
    retries >= 1 =>
        /\ fetch_state = "running" => gets = attempt /\ gets < retries
        /\ fetch_state = "raised" =>
              /\ gets = retries
              /\ fetch_last.err # "" \/ fetch_last.status \in 400..599
              /\ fetch_last.err # "" => fetch_cause.type = fetch_last.err
              /\ fetch_last.err = "" =>
                    fetch_cause = [type |-> "HTTPError", status |-> fetch_last.status]
        /\ fetch_state = "returned" =>
              /\ gets = attempt + 1 /\ gets <= retries
              /\ fetch_resp = fetch_last
              /\ fetch_last.err = ""
              /\ fetch_last.status \notin 400..599

\* three attempts were allowed, all three failed, and the error was raised
C5_RaisedAfterThird ==
    /\ retries = DefaultRetries
    /\ fetch_state = "raised"
    /\ gets = DefaultRetries

(***************************************************************************)
(* The store and scrape_and_store_category                                 *)
(*                                                                         *)
(* Every DatabaseManager method runs inside "with self.get_connection()":  *)
(* psycopg2 commits the transaction when the block ends normally and rolls *)
(* it back when it ends by an exception; it does not close the connection, *)
(* and no method calls close().  An open connection is closed only when    *)
(* the interpreter finalizes the object (CollectGarbage).                  *)
(***************************************************************************)
\* what the site serves during a scrape
SiteOutcomes ==
    {[err |-> "", status |-> 503, content |-> <<>>]}
    \cup {[err |-> "", status |-> 200, content |-> p] : p \in SitePages}

\* scrape_category_products: any exception of the fetch or the parse gives []
scrape_category_products(state, resp) ==
    IF state = "raised" \/ resp = NoResp THEN <<>>
    ELSE ExtractProducts(resp.content, DefaultLimit)

\* a test that is always taken
ShouldStoreAlways(scraped) == TRUE

\* if products:
ShouldStore(scraped) == scraped # <<>>

\* a rank taken from the scraped record
StoredRankCarried(product, i) == product.rank

\* enumerate(products, 1): the rank stored for the record at 0-based index i
StoredRank(product, i) == i + 1

\* the row one INSERT adds
InsertRow(product, rank) ==
    [title |-> product.title, affiliate_link |-> product.url,
     summary |-> product.summary, rank |-> rank]

\* a DELETE that is committed at once
ExecDeleteAutocommit(db, c) == [committed |-> [db EXCEPT ![c] = {}], pending |-> {}]

\* DELETE FROM products WHERE category_id = c, inside the open transaction:
\* the committed rows stay as they are until the commit
ExecDelete(db, c) == [committed |-> db, pending |-> {}]

\* SELECT ... ORDER BY rank over a set of rows
SortByRank(rows) ==
    LET n == Cardinality(rows) IN
    CHOOSE s \in [1..n -> rows] :
        /\ \A i, j \in 1..n : i # j => s[i] # s[j]
        /\ \A i, j \in 1..n : i < j => s[i].rank <= s[j].rank

InUse == IF txn.open THEN 1 ELSE 0

\* scrape_and_store_category(c) up to the return of get_category_by_id
SASBegin(c) ==
    /\ obs' = NoObs
    /\ pc = "idle"
    /\ open_conns < MaxOpenConns
    /\ open_conns' = open_conns + 1
    /\ sas_cat' = c
    /\ sas_products' = <<>>
    /\ ins_i' = 0
    /\ IF c \in Categories
       THEN /\ pre_products' = products[c]
            /\ pre_stamp' = last_scraped[c]
            /\ pc' = "fetch"
            /\ sas_result' = "pending"
            /\ StartFetch(DefaultRetries)
       ELSE /\ pre_products' = {}
            /\ pre_stamp' = NULL
            /\ pc' = "idle"
            /\ sas_result' = "False"
            /\ fetch_state' = "idle"
            /\ UNCHANGED <<retries, attempt, gets, fetch_last, fetch_cause, fetch_resp>>
    /\ UNCHANGED <<now, last_scraped, products, txn, last_extract, exVars, affVars,
                   dueVars>>

\* get_category_by_id raises: the connection cannot be made (acquired = FALSE)
\* or the query fails on an open connection (acquired = TRUE)
SASBeginFails(c, acquired) ==
    /\ obs' = NoObs
    /\ pc = "idle"
    /\ acquired => open_conns < MaxOpenConns
    /\ open_conns' = IF acquired THEN open_conns + 1 ELSE open_conns
    /\ sas_cat' = c
    /\ sas_products' = <<>>
    /\ ins_i' = 0
    /\ pre_products' = IF c \in Categories THEN products[c] ELSE {}
    /\ pre_stamp' = IF c \in Categories THEN last_scraped[c] ELSE NULL
    /\ sas_result' = "StoreError"
    /\ fetch_state' = "idle"
    /\ UNCHANGED <<pc, retries, attempt, gets, fetch_last, fetch_cause, fetch_resp>>
    /\ UNCHANGED <<now, last_scraped, products, txn, last_extract, exVars, affVars,
                   dueVars>>

\* the rest of scrape_category_products and the test "if products:"
SASExtract ==
    /\ obs' = NoObs
    /\ pc = "fetch"
    /\ fetch_state \in {"returned", "raised"}
    /\ LET scraped == scrape_category_products(fetch_state, fetch_resp) IN
       /\ sas_products' = scraped
       /\ last_extract' = IF scraped # <<>> /\ sas_cat \in DOMAIN last_extract
                          THEN [last_extract EXCEPT ![sas_cat] = scraped]
                          ELSE last_extract
       /\ IF ShouldStore(scraped)
          THEN pc' = "insert" /\ UNCHANGED sas_result
          ELSE pc' = "idle" /\ sas_result' = "False"
    /\ EndFetch
    /\ UNCHANGED <<sas_cat, pre_products, pre_stamp, ins_i>>
    /\ UNCHANGED <<storeVars, exVars, affVars, dueVars>>

\* insert_products: get_connection and the DELETE
InsDelete ==
    /\ obs' = NoObs
    /\ pc = "insert"
    /\ open_conns < MaxOpenConns
    /\ open_conns' = open_conns + 1
    /\ LET d == ExecDelete(products, sas_cat) IN
       /\ products' = d.committed
       /\ txn' = [open |-> TRUE, rows |-> d.pending]
    /\ ins_i' = 0
    /\ pc' = "inserting"
    /\ UNCHANGED <<now, last_scraped, sas_cat, sas_products, sas_result, pre_products,
                   pre_stamp, last_extract, fetchVars, exVars, affVars, dueVars>>

\* insert_products: one iteration of the INSERT loop
InsInsert ==
    /\ obs' = NoObs
    /\ pc = "inserting"
    /\ ins_i < Len(sas_products)
    /\ LET product == sas_products[ins_i + 1] IN
       txn' = [txn EXCEPT !.rows = @ \cup {InsertRow(product, StoredRank(product, ins_i))}]
    /\ ins_i' = ins_i + 1
    /\ UNCHANGED <<now, last_scraped, products, open_conns, pc, sas_cat, sas_products,
                   sas_result, pre_products, pre_stamp, last_extract, fetchVars,
                   exVars, affVars, dueVars>>

\* insert_products: conn.commit() and the end of the with block
InsCommit ==
    /\ obs' = NoObs
    /\ pc = "inserting"
    /\ ins_i = Len(sas_products)
    /\ products' = [products EXCEPT ![sas_cat] = txn.rows]
    /\ txn' = NoTxn
    /\ pc' = "stamp"
    /\ ins_i' = 0
    /\ UNCHANGED <<now, last_scraped, open_conns, sas_cat, sas_products, sas_result,
                   pre_products, pre_stamp, last_extract, fetchVars, exVars,
                   affVars, dueVars>>

\* insert_products raises: the connection cannot be made, or a statement or
\* the commit fails and the with block rolls the transaction back
InsFails ==
    /\ obs' = NoObs
    /\ pc \in {"insert", "inserting"}
    /\ txn' = NoTxn
    /\ sas_result' = "StoreError"
    /\ pc' = "idle"
    /\ ins_i' = 0
    /\ UNCHANGED <<now, last_scraped, products, open_conns, sas_cat, sas_products,
                   pre_products, pre_stamp, last_extract, fetchVars, exVars,
                   affVars, dueVars>>

\* update_category_scraped and the return True
SASStamp ==
    /\ obs' = NoObs
    /\ pc = "stamp"
    /\ open_conns < MaxOpenConns
    /\ open_conns' = open_conns + 1
    /\ last_scraped' = [last_scraped EXCEPT ![sas_cat] = now]
    /\ sas_result' = "True"
    /\ pc' = "idle"
    /\ UNCHANGED <<now, products, txn, sas_cat, sas_products, pre_products, pre_stamp,
                   ins_i, last_extract, fetchVars, exVars, affVars, dueVars>>

\* update_category_scraped raises
SASStampFails(acquired) ==
    /\ obs' = NoObs
    /\ pc = "stamp"
    /\ acquired => open_conns < MaxOpenConns
    /\ open_conns' = IF acquired THEN open_conns + 1 ELSE open_conns
    /\ sas_result' = "StoreError"
    /\ pc' = "idle"
    /\ UNCHANGED <<now, last_scraped, products, txn, sas_cat, sas_products, pre_products,
                   pre_stamp, ins_i, last_extract, fetchVars, exVars, affVars,
                   dueVars>>

\* a reader's get_products_by_category(c), at any moment of a scrape
get_products_by_category(c) ==
    /\ open_conns < MaxOpenConns
    /\ open_conns' = open_conns + 1
    /\ obs' = [cat |-> c, rows |-> SortByRank(products[c])]
    /\ UNCHANGED <<now, last_scraped, products, txn, sasVars, fetchVars, exVars, affVars,
                   dueVars>>

\* the interpreter finalizes a connection object nothing refers to any more
CollectGarbage ==
    /\ obs' = NoObs
    /\ open_conns > InUse
    /\ open_conns' = open_conns - 1
    /\ UNCHANGED <<now, last_scraped, products, txn, sasVars, fetchVars, exVars,
                   affVars, dueVars>>

\* time passes
Tick ==
    /\ obs' = NoObs
    /\ now < MaxTime
    /\ now' = now + 1
    /\ UNCHANGED <<last_scraped, products, txn, open_conns, sasVars, fetchVars,
                   exVars, affVars, dueVars>>

Init == IdleStore /\ IdleSas /\ IdleFetch /\ obs = NoObs /\ IdleEx /\ IdleAff /\ IdleDue

\* the same state, with the history of scraped lists kept for every category
InitNoFault ==
    /\ IdleStore /\ IdleFetch /\ obs = NoObs /\ IdleEx /\ IdleAff /\ IdleDue
    /\ pc = "idle"
    /\ sas_cat = 0
    /\ sas_products = <<>>
    /\ sas_result = "none"
    /\ pre_products = {}
    /\ pre_stamp = NULL
    /\ ins_i = 0
    /\ last_extract = [c \in Categories |-> <<>>]

NextNoFault ==
    \/ \E c \in CategoryIds : SASBegin(c)
    \/ \E o \in SiteOutcomes : GetPageAttempt(o)
    \/ SASExtract
    \/ InsDelete
    \/ InsInsert
    \/ InsCommit
    \/ SASStamp
    \/ \E c \in Categories : get_products_by_category(c)
    \/ CollectGarbage
    \/ Tick

Next ==
    \/ NextNoFault
    \/ \E c \in CategoryIds, acquired \in BOOLEAN : SASBeginFails(c, acquired)
    \/ InsFails
    \/ \E acquired \in BOOLEAN : SASStampFails(acquired)

\* the program with a store that may fail at any operation
Spec == Init /\ [][Next]_vars

\* the program with a store whose operations all succeed
SpecNoFault == InitNoFault /\ [][NextNoFault]_vars

(***************************************************************************)
(* Properties of scrape_and_store_category and the store                   *)
(***************************************************************************)
\* the rows a scraped list is stored as: record k with rank k
RowsOf(list) ==
    {[title |-> list[k].title, affiliate_link |-> list[k].url,
      summary |-> list[k].summary, rank |-> k] : k \in 1..Len(list)}

\* C1: when the fetch has failed (all attempts used up) or the extraction came
\* out empty, the call returns False and the category's stored products and
\* last_scraped are what they were when the call began.
C1_FailedScrapeChangesNothing ==
    (/\ pc = "idle"
     /\ sas_cat \in Categories
     /\ fetch_state \in {"returned", "raised"}
     /\ sas_products = <<>>)
    => /\ sas_result = "False"
       /\ products[sas_cat] = pre_products
       /\ last_scraped[sas_cat] = pre_stamp

\* a call on a category that had products and a stamp ended by a failed fetch
C1_FetchFailedOverStoredProducts ==
    /\ pc = "idle"
    /\ sas_cat \in Categories
    /\ fetch_state = "raised"
    /\ sas_result = "False"
    /\ pre_products # {}
    /\ pre_stamp # NULL

C2_AtRest ==
    pc = "idle" =>
        \A c \in Categories :
            /\ products[c] = RowsOf(last_extract[c])
            /\ {r.rank : r \in products[c]} = 1..Cardinality(products[c])

C2_StampStep ==
    (pc = "stamp" /\ pc' # "stamp") =>
        /\ last_scraped'[sas_cat] = now
        /\ sas_result' = "True"
        /\ pc' = "idle"

C3_ReaderSeesWholeSet ==
    (/\ obs # NoObs
     /\ pc \in {"insert", "inserting"}
     /\ obs.cat = sas_cat
     /\ pre_products # {})
    => /\ obs.rows # <<>>
       /\ \/ Range(obs.rows) = pre_products
          \/ Range(obs.rows) = RowsOf(sas_products)

\* a read made between the DELETE and the commit, one row already inserted,
\* the new rows differing from the old ones
C3_ReadInsideReplacement ==
    /\ obs # NoObs
    /\ pc = "inserting"
    /\ ins_i >= 1
    /\ obs.cat = sas_cat
    /\ pre_products # {}
    /\ pre_products # RowsOf(sas_products)

\* C4: when a store operation of the call has failed, the category's stored
\* products and last_scraped are both what they were when the call began.
C4_StoreFailureChangesNothing ==
    (pc = "idle" /\ sas_result = "StoreError" /\ sas_cat \in Categories)
    => /\ products[sas_cat] = pre_products
       /\ last_scraped[sas_cat] = pre_stamp

\* C10: once every store operation has returned or raised, no connection
\* acquired by them is still open.
C10_NoConnectionLeftOpen == pc = "idle" => open_conns = 0

====
